---- MODULE Spec2Model ----
(***************************************************************************)
(* Model of scripts/data_cleaning.py: the text normalizer, the line        *)
(* classifiers, and the two streaming drivers clean_parallel (with its two *)
(* helpers) and clean_mono_gz.                                             *)
(*                                                                         *)
(* A string is a sequence of characters; a character is a short TLA+       *)
(* string.  Printable ASCII characters stand for themselves; the others    *)
(* are named:                                                              *)
(*   "TAB"  U+0009      "LF"   U+000A      "SOH"  U+0001                   *)
(*   "ZWSP" U+200B      "BOM"  U+FEFF      "FW1"  U+FF11 (fullwidth 1)     *)
(*   "FFFD" U+FFFD, the replacement character                              *)
(*   "BAD"  a byte that is not valid UTF-8 (exists only before decoding)   *)
(***************************************************************************)
EXTENDS Integers, Sequences, FiniteSets, TLC

(* ------------------------------------------------------------------ *)
(* Character classes                                                   *)
(* ------------------------------------------------------------------ *)

LowerLetters ==
    {"a","b","c","d","e","f","g","h","i","j","k","l","m",
     "n","o","p","q","r","s","t","u","v","w","x","y","z"}

UpperLetters ==
    {"A","B","C","D","E","F","G","H","I","J","K","L","M",
     "N","O","P","Q","R","S","T","U","V","W","X","Y","Z"}

Digits == {"0","1","2","3","4","5","6","7","8","9"}

\* str.isspace(), the default set of str.strip(), and \s of the re module
WhiteSpace == {" ", "TAB", "LF"}

\* str.isalpha()
IsAlpha(ch) == ch \in LowerLetters \cup UpperLetters

\* str.isalnum(): letters and every numeric character (FW1 is a digit)
IsAlnum(ch) == IsAlpha(ch) \/ ch \in Digits \/ ch = "FW1"

(* ------------------------------------------------------------------ *)
(* Sequence helpers                                                    *)
(* ------------------------------------------------------------------ *)

\* s[i..], the empty string when i is past the end
Drop(s, i) == SubSeq(s, i, Len(s))

\* the first index at or after i whose character is not in set, Len(s)+1 if none
RECURSIVE SkipSet(_, _, _)
SkipSet(s, i, set) ==
    IF i <= Len(s) /\ s[i] \in set THEN SkipSet(s, i + 1, set) ELSE i

\* the last index at or before i whose character is not in set, 0 if none
RECURSIVE SkipSetBack(_, _, _)
SkipSetBack(s, i, set) ==
    IF i >= 1 /\ s[i] \in set THEN SkipSetBack(s, i - 1, set) ELSE i

\* str.strip(): remove leading and trailing whitespace
Strip(s) == SubSeq(s, SkipSet(s, 1, WhiteSpace), SkipSetBack(s, Len(s), WhiteSpace))

\* does t occur in s starting at index i
StartsAt(s, i, t) ==
    /\ i >= 1
    /\ i + Len(t) - 1 <= Len(s)
    /\ SubSeq(s, i, i + Len(t) - 1) = t

\* substring test: t in s
Contains(s, t) == \E i \in 1..(Len(s) + 1) : StartsAt(s, i, t)

(* ------------------------------------------------------------------ *)
(* normalize                                                           *)
(* ------------------------------------------------------------------ *)

\* ZERO_WIDTH = [\uFEFF\u200B\u200C\u200D\u2060]
ZERO_WIDTH == {"BOM", "ZWSP"}

\* BRACKET_CHARS = [\[\]\(\)\{\}]
BRACKET_CHARS == {"[", "]", "(", ")", "{", "}"}

\* CTRL = [\u0000-\u001f]
CTRL == {"SOH", "TAB", "LF"}

OpenBrackets == {"[", "(", "{"}
CloseBrackets == {"]", ")", "}"}

\* ZERO_WIDTH.sub("", s)
StripZeroWidth(s) == SelectSeq(s, LAMBDA ch : ch \notin ZERO_WIDTH)

\* unicodedata.normalize("NFKC", s): the fullwidth digit folds to the ASCII
\* digit; every other character of the alphabet is its own NFKC form
NFKC(s) == [i \in 1..Len(s) |-> IF s[i] = "FW1" THEN "1" ELSE s[i]]

\* \d+(?:\.\d+)? matched greedily at index i: the index after the match,
\* 0 when there is no digit at i
NumEnd(s, i) ==
    LET d == SkipSet(s, i, Digits)
    IN  IF d = i THEN 0
        ELSE IF d <= Len(s) /\ s[d] = "." /\ SkipSet(s, d + 1, Digits) > d + 1
             THEN SkipSet(s, d + 1, Digits)
             ELSE d

\* LEADING_COLON_NUM = ^\s*:\d+(?:\.\d+)?\s*  -- the length of the match at
\* the start of s, 0 when it does not match
LeadingColonNumLen(s) ==
    LET w == SkipSet(s, 1, WhiteSpace)
    IN  IF w <= Len(s) /\ s[w] = ":" /\ NumEnd(s, w + 1) > 0
        THEN SkipSet(s, NumEnd(s, w + 1), WhiteSpace) - 1
        ELSE 0

\* LEADING_ANNOT = ^\s*[\[\(\{]?\d+(?:\.\d+)?[\]\)\}]?\s*
LeadingAnnotLen(s) ==
    LET w == SkipSet(s, 1, WhiteSpace)
        b == IF w <= Len(s) /\ s[w] \in OpenBrackets THEN w + 1 ELSE w
        n == NumEnd(s, b)
        c == IF n > 0 /\ n <= Len(s) /\ s[n] \in CloseBrackets THEN n + 1 ELSE n
    IN  IF n > 0 THEN SkipSet(s, c, WhiteSpace) - 1 ELSE 0

\* pattern.sub(" ", s) for a one-character class
SubSpace(s, set) == [i \in 1..Len(s) |-> IF s[i] \in set THEN " " ELSE s[i]]

\* re.sub(r"\s+", " ", s)
RECURSIVE CollapseWs(_)
CollapseWs(s) ==
    IF s = <<>> THEN <<>>
    ELSE IF Head(s) \in WhiteSpace
         THEN <<" ">> \o CollapseWs(Drop(s, SkipSet(s, 1, WhiteSpace)))
         ELSE <<Head(s)>> \o CollapseWs(Tail(s))

LowerOf ==
    [ch \in UpperLetters |->
        CASE ch = "A" -> "a" [] ch = "B" -> "b" [] ch = "C" -> "c" [] ch = "D" -> "d"
          [] ch = "E" -> "e" [] ch = "F" -> "f" [] ch = "G" -> "g" [] ch = "H" -> "h"
          [] ch = "I" -> "i" [] ch = "J" -> "j" [] ch = "K" -> "k" [] ch = "L" -> "l"
          [] ch = "M" -> "m" [] ch = "N" -> "n" [] ch = "O" -> "o" [] ch = "P" -> "p"
          [] ch = "Q" -> "q" [] ch = "R" -> "r" [] ch = "S" -> "s" [] ch = "T" -> "t"
          [] ch = "U" -> "u" [] ch = "V" -> "v" [] ch = "W" -> "w" [] ch = "X" -> "x"
          [] ch = "Y" -> "y" [] ch = "Z" -> "z"]

\* str.lower()
Lower(s) == [i \in 1..Len(s) |-> IF s[i] \in UpperLetters THEN LowerOf[s[i]] ELSE s[i]]

\* normalize(s, lowercase), one local per assignment of the function
normalize(s, lowercase) ==
    LET s1 == Strip(s)
        s2 == StripZeroWidth(s1)
        s3 == NFKC(s2)
        s4 == Drop(s3, LeadingColonNumLen(s3) + 1)
        s5 == Drop(s4, LeadingAnnotLen(s4) + 1)
        s6 == SubSpace(s5, BRACKET_CHARS)
        s7 == SubSpace(s6, CTRL)
        s8 == Strip(CollapseWs(s7))
    IN  IF lowercase THEN Lower(s8) ELSE s8

(* ------------------------------------------------------------------ *)
(* Line classifiers                                                    *)
(* ------------------------------------------------------------------ *)

\* URLISH = (https?://|www\.), re.IGNORECASE
URLISH(s) ==
    LET l == Lower(s)
    IN  \/ Contains(l, <<"h","t","t","p",":","/","/">>)
        \/ Contains(l, <<"h","t","t","p","s",":","/","/">>)
        \/ Contains(l, <<"w","w","w",".">>)

\* \d of a str pattern: every decimal digit, the fullwidth ones included
DecimalDigits == Digits \cup {"FW1"}

\* HTMLISH = (<[^>]+>|&nbsp;|&#\d+;)
HTMLISH(s) ==
    \/ \E i \in 1..Len(s) :
          /\ s[i] = "<"
          /\ i + 1 <= Len(s) /\ s[i + 1] # ">"
          /\ \E j \in (i + 2)..Len(s) : s[j] = ">"
    \/ Contains(s, <<"&","n","b","s","p",";">>)
    \/ \E i \in 1..Len(s) :
          /\ StartsAt(s, i, <<"&","#">>)
          /\ SkipSet(s, i + 2, DecimalDigits) > i + 2
          /\ SkipSet(s, i + 2, DecimalDigits) <= Len(s)
          /\ s[SkipSet(s, i + 2, DecimalDigits)] = ";"

\* bad_line with URLISH matched case-sensitively
bad_line_case_sensitive(s) ==
    IF s = <<>> THEN TRUE
    ELSE IF Contains(s, <<"FFFD">>) THEN TRUE
    ELSE IF \/ Contains(s, <<"h","t","t","p",":","/","/">>)
            \/ Contains(s, <<"h","t","t","p","s",":","/","/">>)
            \/ Contains(s, <<"w","w","w",".">>)
            \/ HTMLISH(s) THEN TRUE
    ELSE IF ~ \E i \in 1..Len(s) : IsAlpha(s[i]) THEN TRUE
    ELSE FALSE

bad_line(s) ==
    IF s = <<>> THEN TRUE
    ELSE IF Contains(s, <<"FFFD">>) THEN TRUE
    ELSE IF URLISH(s) \/ HTMLISH(s) THEN TRUE
    ELSE IF ~ \E i \in 1..Len(s) : IsAlpha(s[i]) THEN TRUE
    ELSE FALSE

\* LEADING_PUNCT_SPAM = ^\s*[!?.;,:'"*_~\-]{2,}
SpamPunct == {"!", "?", ".", ";", ",", ":", "'", "\"", "*", "_", "~", "-"}

LEADING_PUNCT_SPAM(s) ==
    LET w == SkipSet(s, 1, WhiteSpace)
    IN  w + 1 <= Len(s) /\ s[w] \in SpamPunct /\ s[w + 1] \in SpamPunct

\* TEMPLATE_ARTIFACTS = (\$\d+|{{|}}|\[\[|\]\])
TEMPLATE_ARTIFACTS(s) ==
    \/ \E i \in 1..(Len(s) - 1) : s[i] = "$" /\ s[i + 1] \in Digits
    \/ Contains(s, <<"{","{">>)
    \/ Contains(s, <<"}","}">>)
    \/ Contains(s, <<"[","[">>)
    \/ Contains(s, <<"]","]">>)

\* REPEATED_PUNCT = ([!?.])\1{3,}
REPEATED_PUNCT(s) ==
    \E i \in 1..(Len(s) - 3) :
        /\ s[i] \in {"!", "?", "."}
        /\ s[i + 1] = s[i] /\ s[i + 2] = s[i] /\ s[i + 3] = s[i]

\* ch in ".,?!:;'\"()-"
StandardPunct == {".", ",", "?", "!", ":", ";", "'", "\"", "(", ")", "-"}

RECURSIVE CountAlpha(_)
CountAlpha(s) ==
    IF s = <<>> THEN 0
    ELSE (IF IsAlpha(Head(s)) THEN 1 ELSE 0) + CountAlpha(Tail(s))

RECURSIVE CountWeird(_)
CountWeird(s) ==
    IF s = <<>> THEN 0
    ELSE (IF ~ (IsAlnum(Head(s)) \/ Head(s) \in WhiteSpace \/ Head(s) \in StandardPunct)
          THEN 1 ELSE 0) + CountWeird(Tail(s))

\* letters / total < 0.6 and weird / total > 0.2 are decided on the exact
\* quotients: 0.6 = 3/5 and 0.2 = 1/5, and the float quotient of two small
\* integers equals the float literal exactly when the fractions are equal
noisy_mono_line(s) ==
    LET letters == CountAlpha(s)
        total == Len(s)
        weird == CountWeird(s)
    IN  IF LEADING_PUNCT_SPAM(s) THEN TRUE
        ELSE IF TEMPLATE_ARTIFACTS(s) THEN TRUE
        ELSE IF REPEATED_PUNCT(s) THEN TRUE
        ELSE IF total > 0 /\ letters * 5 < 3 * total THEN TRUE
        ELSE IF total > 0 /\ weird * 5 > total THEN TRUE
        ELSE FALSE

\* s.split(): the number of whitespace-separated words
RECURSIVE WordCount(_)
WordCount(s) ==
    LET w == SkipSet(s, 1, WhiteSpace)
        nonWs == {ch \in {s[i] : i \in 1..Len(s)} : ch \notin WhiteSpace}
    IN  IF w > Len(s) THEN 0
        ELSE 1 + WordCount(Drop(s, SkipSet(s, w, nonWs)))

(* ------------------------------------------------------------------ *)
(* Decoding of the input streams and parsing of a score                *)
(* ------------------------------------------------------------------ *)

\* open(..., encoding="utf-8", errors="replace"): an undecodable byte
\* becomes U+FFFD; the iterator yields the line with its newline
DecodeReplace(bytes) ==
    [i \in 1..Len(bytes) |-> IF bytes[i] = "BAD" THEN "FFFD" ELSE bytes[i]] \o <<"LF">>

\* open(score_path, encoding="utf-8"): errors="strict" is the default, an
\* undecodable byte raises UnicodeDecodeError out of the iterator
DecodeStrictFails(bytes) == \E i \in 1..Len(bytes) : bytes[i] = "BAD"

DecodeStrict(bytes) == bytes \o <<"LF">>

DigitOf ==
    [ch \in Digits |->
        CASE ch = "0" -> 0 [] ch = "1" -> 1 [] ch = "2" -> 2 [] ch = "3" -> 3
          [] ch = "4" -> 4 [] ch = "5" -> 5 [] ch = "6" -> 6 [] ch = "7" -> 7
          [] ch = "8" -> 8 [] ch = "9" -> 9]

\* the number written by a string of decimal digits (0 for the empty string)
RECURSIVE DigitsVal(_)
DigitsVal(s) ==
    IF s = <<>> THEN 0
    ELSE 10 * DigitsVal(SubSeq(s, 1, Len(s) - 1)) + DigitOf[s[Len(s)]]

RECURSIVE Pow10(_)
Pow10(n) == IF n = 0 THEN 1 ELSE 10 * Pow10(n - 1)

\* float(s) for s over digits, ".", signs and letters (no exponent, no "_"):
\*   [sign] (digits ["." [digits]] | "." digits | "inf" | "infinity" | "nan")
\* ok = FALSE is ValueError.  A finite value is the exact fraction
\* num / den with the sign neg, which orders short decimals as their floats.
NoFloat == [ok |-> FALSE, nan |-> FALSE, inf |-> FALSE, neg |-> FALSE, num |-> 0, den |-> 1]

ParseFloat(str) ==
    LET s == Strip(str)
        signed == s # <<>> /\ s[1] \in {"+", "-"}
        neg == s # <<>> /\ s[1] = "-"
        body == IF signed THEN Tail(s) ELSE s
        low == Lower(body)
        i == SkipSet(body, 1, Digits)
        j == SkipSet(body, i + 1, Digits)
        int == SubSeq(body, 1, i - 1)
        frac == SubSeq(body, i + 1, j - 1)
    IN  IF low = <<"n","a","n">>
        THEN [NoFloat EXCEPT !.ok = TRUE, !.nan = TRUE]
        ELSE IF low = <<"i","n","f">> \/ low = <<"i","n","f","i","n","i","t","y">>
        THEN [NoFloat EXCEPT !.ok = TRUE, !.inf = TRUE, !.neg = neg]
        ELSE IF i > Len(body)
        THEN IF i > 1
             THEN [NoFloat EXCEPT !.ok = TRUE, !.neg = neg, !.num = DigitsVal(int)]
             ELSE NoFloat
        ELSE IF body[i] = "." /\ j > Len(body) /\ (i > 1 \/ j > i + 1)
        THEN [NoFloat EXCEPT !.ok = TRUE, !.neg = neg,
                             !.num = DigitsVal(int \o frac), !.den = Pow10(Len(frac))]
        ELSE NoFloat

\* ScoreBelow with the comparison <= in place of <
ScoreBelowOrEqual(score, m) ==
    IF score.nan THEN FALSE
    ELSE IF score.inf THEN score.neg
    ELSE (IF score.neg THEN 0 - score.num ELSE score.num) * m.den <= m.num * score.den

\* score < min_score for a parsed score; min_score is the fraction m.num / m.den.
\* Every comparison with nan is false.
ScoreBelow(score, m) ==
    IF score.nan THEN FALSE
    ELSE IF score.inf THEN score.neg
    ELSE (IF score.neg THEN 0 - score.num ELSE score.num) * m.den < m.num * score.den

(* ------------------------------------------------------------------ *)
(* Bounds and the small sets the inputs are drawn from                 *)
(* ------------------------------------------------------------------ *)

\* the longest input stream, in lines
MaxLines == 2

\* the longest string normalize is applied to in SpecNorm
MaxStrLen == 3

\* the progress interval, 1_000_000 in the source, scaled so that a stream of
\* MaxLines lines reaches it
ProgressEvery == 2

Max(a, b) == IF a >= b THEN a ELSE b
Min(a, b) == IF a <= b THEN a ELSE b

\* lines of the source-language file, as bytes
EnLines == { <<"a">>, <<"A">>, <<"a"," ","b"," ","c"," ","d"," ","e">> }

\* lines of the target-language file
SwLines == { <<"x"," ","y">>, <<"x"," ","y"," ","z">>, <<"x","BAD">> }

\* lines of the score file
ScoreLines ==
    { <<"0",".","9">>, <<"1",".","1">>, <<"a","b","c">>, <<"n","a","n">>, <<"1","BAD">> }

\* lines of the gzip monolingual file
MonoLines ==
    { <<"a"," ","b">>, <<"A"," ","b">>, <<"a"," ","b"," ","c"," ","d"," ","e">>,
      <<"a","b","c","!","!","!","!">>, <<"1","2">>, <<"{","{","a","}","}">>,
      <<"a"," ","1"," ","2">>, <<"a","BAD">> }

\* min_score: the default 1.1
MinScores == { [num |-> 11, den |-> 10] }

\* (max_words, max_ratio): the defaults 80 and 3.0, a ratio limit the word
\* counts 1, 2, 3 and 5 of the lines straddle, and a word limit they straddle
Limits ==
    { [max_words |-> 80, max_ratio |-> [num |-> 3, den |-> 1]],
      [max_words |-> 80, max_ratio |-> [num |-> 2, den |-> 1]],
      [max_words |-> 4,  max_ratio |-> [num |-> 2, den |-> 1]] }

\* directories, as paths from the working directory
OutEnDirs == { <<"out">> }
OutSwDirs == { <<"out">>, <<"out","sw">> }
OutMonoDirs == { <<"out","mono">> }

(* ------------------------------------------------------------------ *)
(* State                                                               *)
(* ------------------------------------------------------------------ *)

VARIABLES
    pc,         \* "idle", "helper_no_score", "helper_with_score", "clean_mono_gz",
                \* "done", "error", and "normalize" / "normalized" in SpecNorm
    err,        \* the exception that ended the run, "" if none
    args,       \* the arguments of the running call
    lens,       \* the line counts of the input files of the running call
    dirs,       \* the directories that exist
    pairs,      \* helper_*: pairs
    processed,  \* clean_mono_gz: processed
    kept,
    dropped,
    seen,       \* [none |-> seen is None, keys |-> the set]
    oe,         \* lines written to out_en
    os,         \* lines written to out_sw
    fout,       \* lines written to out_path
    stdout,     \* what print() has written
    fe_read,    \* the lines (bytes) the loop has taken from fe, in order
    fs_read,
    fscore_read,
    fin_read,
    origin,     \* for each line written, the index of the record it came from
    verdict,    \* which branch the last record took
    prev_seen,  \* seen as the call that returned last left it
    b_line,     \* SpecBadLine: the argument line
    b_result,   \* SpecBadLine: what bad_line returned
    n_s,        \* SpecNorm: the argument s
    n_lowercase,\* SpecNorm: the argument lowercase
    n_out       \* SpecNorm: the results of the successive applications

vars ==
    << pc, err, args, lens, dirs, pairs, processed, kept, dropped, seen, oe, os,
       fout, stdout, fe_read, fs_read, fscore_read, fin_read, origin, verdict,
       prev_seen, b_line, b_result, n_s, n_lowercase, n_out >>

normVars == << n_s, n_lowercase, n_out >>

mainVars == << prev_seen >>

badLineVars == << b_line, b_result >>

NoArgs ==
    [driver |-> "", score_path |-> FALSE, out_en |-> <<>>, out_sw |-> <<>>,
     out_path |-> <<>>, min_score |-> [num |-> 11, den |-> 10], max_words |-> 80,
     max_ratio |-> [num |-> 3, den |-> 1], dedup |-> FALSE]

NoLens == [en |-> 0, sw |-> 0, score |-> 0, gz |-> 0]

Init ==
    /\ pc = "idle"
    /\ err = ""
    /\ args = NoArgs
    /\ lens = NoLens
    /\ dirs = {}
    /\ pairs = 0
    /\ processed = 0
    /\ kept = 0
    /\ dropped = 0
    /\ seen = [none |-> TRUE, keys |-> {}]
    /\ oe = <<>>
    /\ os = <<>>
    /\ fout = <<>>
    /\ stdout = <<>>
    /\ fe_read = <<>>
    /\ fs_read = <<>>
    /\ fscore_read = <<>>
    /\ fin_read = <<>>
    /\ origin = <<>>
    /\ verdict = ""
    /\ prev_seen = [none |-> TRUE, keys |-> {}]
    /\ b_line = <<>>
    /\ b_result = FALSE
    /\ n_s = <<>>
    /\ n_lowercase = TRUE
    /\ n_out = <<>>

(* ------------------------------------------------------------------ *)
(* clean_parallel                                                      *)
(* ------------------------------------------------------------------ *)

\* Path(p).parent.mkdir(parents=True, exist_ok=True): the directory and
\* every ancestor of it exist afterwards
Mkdir(existing, dir) == existing \cup {SubSeq(dir, 1, k) : k \in 1..Len(dir)}

\* open(path, "w") finds the parent directory of path
CanOpenForWrite(existing, dir) == dir = <<>> \/ dir \in existing

\* RatioAbove with the comparison >= in place of >
RatioAtLeast(a, b, max_ratio) ==
    Max(a, b) * max_ratio.den >= max_ratio.num * Max(1, Min(a, b))

\* ratio = max(a, b) / max(1, min(a, b)); ratio > max_ratio
RatioAbove(a, b, max_ratio) ==
    Max(a, b) * max_ratio.den > max_ratio.num * Max(1, Min(a, b))

\* helper_no_score_verdict with the malformed-line check on the source line
\* only
helper_no_score_verdict_en_only(en_raw, sw_raw, max_words, max_ratio, sn) ==
    LET en == normalize(en_raw, TRUE)
        sw == normalize(sw_raw, TRUE)
        en_w == WordCount(en)
        sw_w == WordCount(sw)
    IN  IF bad_line(en) THEN "bad_line"
        ELSE IF en_w > max_words \/ sw_w > max_words THEN "max_words"
        ELSE IF RatioAbove(en_w, sw_w, max_ratio) THEN "ratio"
        ELSE IF ~ sn.none /\ <<en, sw>> \in sn.keys THEN "seen"
        ELSE "keep"

\* the body of the loop of helper_no_score, up to the branch it takes
helper_no_score_verdict(en_raw, sw_raw, max_words, max_ratio, sn) ==
    LET en == normalize(en_raw, TRUE)
        sw == normalize(sw_raw, TRUE)
        en_w == WordCount(en)
        sw_w == WordCount(sw)
    IN  IF bad_line(en) \/ bad_line(sw) THEN "bad_line"
        ELSE IF en_w > max_words \/ sw_w > max_words THEN "max_words"
        ELSE IF RatioAbove(en_w, sw_w, max_ratio) THEN "ratio"
        ELSE IF ~ sn.none /\ <<en, sw>> \in sn.keys THEN "seen"
        ELSE "keep"

\* the score gate of helper_with_score: float(score_raw.strip()) and the
\* comparison with min_score
ScoreGate(score_raw, min_score) ==
    LET score == ParseFloat(score_raw)
    IN  IF ~ score.ok THEN "score_parse"
        ELSE IF ScoreBelow(score, min_score) THEN "score_low"
        ELSE "pass"

\* the body of the loop of helper_with_score, up to the branch it takes;
\* the helper never reads seen
helper_with_score_verdict(en_raw, sw_raw, score_raw, min_score, max_words, max_ratio) ==
    LET gate == ScoreGate(score_raw, min_score)
        en == normalize(en_raw, TRUE)
        sw == normalize(sw_raw, TRUE)
        en_w == WordCount(en)
        sw_w == WordCount(sw)
    IN  IF gate # "pass" THEN gate
        ELSE IF bad_line(en) \/ bad_line(sw) THEN "bad_line"
        ELSE IF en_w > max_words \/ sw_w > max_words THEN "max_words"
        ELSE IF RatioAbove(en_w, sw_w, max_ratio) THEN "ratio"
        ELSE "keep"

Progress(tag, n, k, d) ==
    [kind |-> "progress", tag |-> tag, processed |-> n, kept |-> k, dropped |-> d]

Summary(tag, k, d) == [kind |-> "summary", tag |-> tag, kept |-> k, dropped |-> d]

\* the print of the progress line sits after kept += 1, behind every continue
PrintProgress(out, tag, n, k, d) ==
    IF n % ProgressEvery = 0 THEN Append(out, Progress(tag, n, k, d)) ELSE out

monoVars == << processed, fout, fin_read >>

\* FreshSeen with the set kept in a module-level variable that no call clears
StaleSeen(dedup) == [none |-> ~ dedup, keys |-> seen.keys]

\* seen = set() if dedup else None
FreshSeen(dedup) == [none |-> ~ dedup, keys |-> {}]

\* clean_parallel up to the first iteration: mkdir, the counters, the
\* dispatch on score_path and the opens of the with statement; the caller
\* passes score_path or not (score_paths), limits from limit_set and files of
\* at most max_lines lines
clean_parallel_of(score_paths, limit_set, max_lines) ==
    /\ pc = "idle"
    /\ \E score_path \in score_paths, out_en \in OutEnDirs, out_sw \in OutSwDirs,
          min_score \in MinScores, lim \in limit_set, dedup \in BOOLEAN,
          n_en \in 0..max_lines, n_sw \in 0..max_lines, n_score \in 0..max_lines :
          /\ score_path \/ n_score = 0
          /\ args' = [NoArgs EXCEPT !.driver = "clean_parallel",
                                    !.score_path = score_path,
                                    !.out_en = out_en, !.out_sw = out_sw,
                                    !.min_score = min_score,
                                    !.max_words = lim.max_words,
                                    !.max_ratio = lim.max_ratio,
                                    !.dedup = dedup]
          /\ lens' = [NoLens EXCEPT !.en = n_en, !.sw = n_sw, !.score = n_score]
          /\ dirs' = Mkdir(dirs, out_en)
          /\ seen' = FreshSeen(dedup)
          /\ IF CanOpenForWrite(dirs', out_en) /\ CanOpenForWrite(dirs', out_sw)
             THEN /\ pc' = IF score_path THEN "helper_with_score" ELSE "helper_no_score"
                  /\ err' = ""
             ELSE /\ pc' = "error"
                  /\ err' = "FileNotFoundError"
    /\ kept' = 0
    /\ dropped' = 0
    /\ pairs' = 0
    /\ oe' = <<>>
    /\ os' = <<>>
    /\ fe_read' = <<>>
    /\ fs_read' = <<>>
    /\ fscore_read' = <<>>
    /\ origin' = <<>>
    /\ verdict' = ""
    /\ UNCHANGED stdout
    /\ UNCHANGED monoVars
    /\ UNCHANGED mainVars
    /\ UNCHANGED badLineVars
    /\ UNCHANGED normVars

clean_parallel == clean_parallel_of(BOOLEAN, Limits, MaxLines)

\* ParallelRecord with oe.write placed before the checks: the source line is
\* written for every record, the target line only for a kept one
ParallelRecordWriteEarly(v, en, sw) ==
    /\ pairs' = pairs + 1
    /\ verdict' = v
    /\ oe' = Append(oe, en)
    /\ IF v = "keep"
       THEN /\ os' = Append(os, sw)
            /\ origin' = Append(origin, pairs')
            /\ kept' = kept + 1
            /\ dropped' = dropped
            /\ stdout' = PrintProgress(stdout, "parallel", pairs', kept', dropped')
       ELSE /\ dropped' = dropped + 1
            /\ UNCHANGED << os, origin, kept, stdout >>

\* ParallelRecord with each file rewritten with the new line at its head
ParallelRecordPrepend(v, en, sw) ==
    /\ pairs' = pairs + 1
    /\ verdict' = v
    /\ IF v = "keep"
       THEN /\ oe' = <<en>> \o oe
            /\ os' = <<sw>> \o os
            /\ origin' = <<pairs'>> \o origin
            /\ kept' = kept + 1
            /\ dropped' = dropped
            /\ stdout' = PrintProgress(stdout, "parallel", pairs', kept', dropped')
       ELSE /\ dropped' = dropped + 1
            /\ UNCHANGED << oe, os, origin, kept, stdout >>

\* ParallelRecord with no dropped += 1 before the continue of the dedup check
ParallelRecordUncountedDuplicate(v, en, sw) ==
    /\ pairs' = pairs + 1
    /\ verdict' = v
    /\ IF v = "keep"
       THEN /\ oe' = Append(oe, en)
            /\ os' = Append(os, sw)
            /\ origin' = Append(origin, pairs')
            /\ kept' = kept + 1
            /\ dropped' = dropped
            /\ stdout' = PrintProgress(stdout, "parallel", pairs', kept', dropped')
       ELSE /\ dropped' = IF v = "seen" THEN dropped ELSE dropped + 1
            /\ UNCHANGED << oe, os, origin, kept, stdout >>

\* what an iteration of either helper does once its verdict v is known: the
\* counters, the two writes and the progress line
ParallelRecord(v, en, sw) ==
    /\ pairs' = pairs + 1
    /\ verdict' = v
    /\ IF v = "keep"
       THEN /\ oe' = Append(oe, en)
            /\ os' = Append(os, sw)
            /\ origin' = Append(origin, pairs')
            /\ kept' = kept + 1
            /\ dropped' = dropped
            /\ stdout' = PrintProgress(stdout, "parallel", pairs', kept', dropped')
       ELSE /\ dropped' = dropped + 1
            /\ UNCHANGED << oe, os, origin, kept, stdout >>

\* one iteration of the loop of helper_no_score, the files holding lines of
\* en_lines and sw_lines
helper_no_score_of(en_lines, sw_lines) ==
    /\ pc = "helper_no_score"
    /\ pairs < lens.en /\ pairs < lens.sw
    /\ \E en_bytes \in en_lines, sw_bytes \in sw_lines :
          LET en_raw == DecodeReplace(en_bytes)
              sw_raw == DecodeReplace(sw_bytes)
              en == normalize(en_raw, TRUE)
              sw == normalize(sw_raw, TRUE)
              v == helper_no_score_verdict(en_raw, sw_raw, args.max_words,
                                           args.max_ratio, seen)
          IN  /\ fe_read' = Append(fe_read, en_bytes)
              /\ fs_read' = Append(fs_read, sw_bytes)
              /\ seen' = IF v = "keep" /\ ~ seen.none
                         THEN [seen EXCEPT !.keys = @ \cup {<<en, sw>>}]
                         ELSE seen
              /\ ParallelRecord(v, en, sw)
    /\ UNCHANGED << pc, err, args, lens, dirs, fscore_read >>
    /\ UNCHANGED monoVars
    /\ UNCHANGED mainVars
    /\ UNCHANGED badLineVars
    /\ UNCHANGED normVars

helper_no_score == helper_no_score_of(EnLines, SwLines)

\* zip() ends at the first exhausted stream; the summary is printed
helper_no_score_end ==
    /\ pc = "helper_no_score"
    /\ ~ (pairs < lens.en /\ pairs < lens.sw)
    /\ stdout' = Append(stdout, Summary("parallel", kept, dropped))
    /\ pc' = "done"
    /\ UNCHANGED << err, args, lens, dirs, pairs, kept, dropped, seen, oe, os,
                    fe_read, fs_read, fscore_read, origin, verdict >>
    /\ UNCHANGED monoVars
    /\ UNCHANGED mainVars
    /\ UNCHANGED badLineVars
    /\ UNCHANGED normVars

\* one iteration of the loop of helper_with_score; the helper neither reads
\* seen nor adds to it
helper_with_score_of(en_lines, sw_lines, score_lines) ==
    /\ pc = "helper_with_score"
    /\ pairs < lens.en /\ pairs < lens.sw /\ pairs < lens.score
    /\ \E en_bytes \in en_lines, sw_bytes \in sw_lines, score_bytes \in score_lines :
          /\ ~ DecodeStrictFails(score_bytes)
          /\ LET en_raw == DecodeReplace(en_bytes)
                 sw_raw == DecodeReplace(sw_bytes)
                 score_raw == DecodeStrict(score_bytes)
                 v == helper_with_score_verdict(en_raw, sw_raw, score_raw,
                          args.min_score, args.max_words, args.max_ratio)
             IN  /\ fe_read' = Append(fe_read, en_bytes)
                 /\ fs_read' = Append(fs_read, sw_bytes)
                 /\ fscore_read' = Append(fscore_read, score_bytes)
                 /\ ParallelRecord(v, normalize(en_raw, TRUE), normalize(sw_raw, TRUE))
    /\ UNCHANGED << pc, err, args, lens, dirs, seen >>
    /\ UNCHANGED monoVars
    /\ UNCHANGED mainVars
    /\ UNCHANGED badLineVars
    /\ UNCHANGED normVars

helper_with_score == helper_with_score_of(EnLines, SwLines, ScoreLines)

\* next(fscore) meets an undecodable byte: UnicodeDecodeError leaves the loop
\* and the function
helper_with_score_decode_error_of(score_lines) ==
    /\ pc = "helper_with_score"
    /\ pairs < lens.en /\ pairs < lens.sw /\ pairs < lens.score
    /\ \E score_bytes \in score_lines :
          /\ DecodeStrictFails(score_bytes)
          /\ fscore_read' = Append(fscore_read, score_bytes)
    /\ pc' = "error"
    /\ err' = "UnicodeDecodeError"
    /\ UNCHANGED << args, lens, dirs, pairs, kept, dropped, seen, oe, os, stdout,
                    fe_read, fs_read, origin, verdict >>
    /\ UNCHANGED monoVars
    /\ UNCHANGED mainVars
    /\ UNCHANGED badLineVars
    /\ UNCHANGED normVars

helper_with_score_decode_error == helper_with_score_decode_error_of(ScoreLines)

helper_with_score_end ==
    /\ pc = "helper_with_score"
    /\ ~ (pairs < lens.en /\ pairs < lens.sw /\ pairs < lens.score)
    /\ stdout' = Append(stdout, Summary("parallel", kept, dropped))
    /\ pc' = "done"
    /\ UNCHANGED << err, args, lens, dirs, pairs, kept, dropped, seen, oe, os,
                    fe_read, fs_read, fscore_read, origin, verdict >>
    /\ UNCHANGED monoVars
    /\ UNCHANGED mainVars
    /\ UNCHANGED badLineVars
    /\ UNCHANGED normVars

(* ------------------------------------------------------------------ *)
(* clean_mono_gz                                                       *)
(* ------------------------------------------------------------------ *)

parallelVars == << pairs, oe, os, fe_read, fs_read, fscore_read >>

\* clean_mono_gz_verdict without the noisy_mono_line check
clean_mono_gz_verdict_no_noise(line, max_words, sn) ==
    LET s == normalize(line, TRUE)
    IN  IF bad_line(s) THEN "bad_line"
        ELSE IF WordCount(s) > max_words THEN "max_words"
        ELSE IF ~ sn.none /\ s \in sn.keys THEN "seen"
        ELSE "keep"

\* the body of the loop of clean_mono_gz, up to the branch it takes
clean_mono_gz_verdict(line, max_words, sn) ==
    LET s == normalize(line, TRUE)
    IN  IF bad_line(s) THEN "bad_line"
        ELSE IF noisy_mono_line(s) THEN "noisy_mono_line"
        ELSE IF WordCount(s) > max_words THEN "max_words"
        ELSE IF ~ sn.none /\ s \in sn.keys THEN "seen"
        ELSE "keep"

\* clean_mono_gz up to the first iteration: mkdir, the counters, the opens
clean_mono_gz_of(limit_set, max_lines) ==
    /\ pc = "idle"
    /\ \E out_path \in OutMonoDirs, lim \in limit_set, dedup \in BOOLEAN,
          n_gz \in 0..max_lines :
          /\ args' = [NoArgs EXCEPT !.driver = "clean_mono_gz",
                                    !.out_path = out_path,
                                    !.max_words = lim.max_words,
                                    !.dedup = dedup]
          /\ lens' = [NoLens EXCEPT !.gz = n_gz]
          /\ dirs' = Mkdir(dirs, out_path)
          /\ seen' = FreshSeen(dedup)
          /\ IF CanOpenForWrite(dirs', out_path)
             THEN pc' = "clean_mono_gz" /\ err' = ""
             ELSE pc' = "error" /\ err' = "FileNotFoundError"
    /\ kept' = 0
    /\ dropped' = 0
    /\ processed' = 0
    /\ fout' = <<>>
    /\ fin_read' = <<>>
    /\ origin' = <<>>
    /\ verdict' = ""
    /\ UNCHANGED stdout
    /\ UNCHANGED parallelVars
    /\ UNCHANGED mainVars
    /\ UNCHANGED badLineVars
    /\ UNCHANGED normVars

clean_mono_gz == clean_mono_gz_of(Limits, MaxLines)

\* one iteration of the loop of clean_mono_gz, the file holding lines of
\* mono_lines
clean_mono_gz_line_of(mono_lines) ==
    /\ pc = "clean_mono_gz"
    /\ processed < lens.gz
    /\ \E bytes \in mono_lines :
          LET line == DecodeReplace(bytes)
              s == normalize(line, TRUE)
              v == clean_mono_gz_verdict(line, args.max_words, seen)
          IN  /\ fin_read' = Append(fin_read, bytes)
              /\ processed' = processed + 1
              /\ verdict' = v
              /\ IF v = "keep"
                 THEN /\ seen' = IF seen.none THEN seen
                                 ELSE [seen EXCEPT !.keys = @ \cup {s}]
                      /\ fout' = Append(fout, s)
                      /\ origin' = Append(origin, processed')
                      /\ kept' = kept + 1
                      /\ dropped' = dropped
                      /\ stdout' = PrintProgress(stdout, "mono", processed', kept', dropped')
                 ELSE /\ dropped' = dropped + 1
                      /\ UNCHANGED << seen, fout, origin, kept, stdout >>
    /\ UNCHANGED << pc, err, args, lens, dirs >>
    /\ UNCHANGED parallelVars
    /\ UNCHANGED mainVars
    /\ UNCHANGED badLineVars
    /\ UNCHANGED normVars

clean_mono_gz_line == clean_mono_gz_line_of(MonoLines)

\* the stream is exhausted; the summary is printed
clean_mono_gz_end ==
    /\ pc = "clean_mono_gz"
    /\ ~ (processed < lens.gz)
    /\ stdout' = Append(stdout, Summary("mono", kept, dropped))
    /\ pc' = "done"
    /\ UNCHANGED << err, args, lens, dirs, processed, kept, dropped, seen, fout,
                    fin_read, origin, verdict >>
    /\ UNCHANGED parallelVars
    /\ UNCHANGED mainVars
    /\ UNCHANGED badLineVars
    /\ UNCHANGED normVars

(* ------------------------------------------------------------------ *)
(* The drivers as one system                                           *)
(* ------------------------------------------------------------------ *)

Next ==
    \/ clean_parallel
    \/ helper_no_score
    \/ helper_no_score_end
    \/ helper_with_score
    \/ helper_with_score_decode_error
    \/ helper_with_score_end
    \/ clean_mono_gz
    \/ clean_mono_gz_line
    \/ clean_mono_gz_end

Spec == Init /\ [][Next]_vars

(* ------------------------------------------------------------------ *)
(* normalize applied to its own result                                 *)
(* ------------------------------------------------------------------ *)

\* digits, letters, spaces, the colon, brackets and control characters
NormAlphabet == {"a", "A", "1", ".", ":", " ", "[", "]", "SOH", "TAB"}

NormStrings == UNION {[1..n -> NormAlphabet] : n \in 0..MaxStrLen}

InitNorm ==
    /\ pc = "normalize"
    /\ err = ""
    /\ args = NoArgs
    /\ lens = NoLens
    /\ dirs = {}
    /\ pairs = 0
    /\ processed = 0
    /\ kept = 0
    /\ dropped = 0
    /\ seen = [none |-> TRUE, keys |-> {}]
    /\ oe = <<>>
    /\ os = <<>>
    /\ fout = <<>>
    /\ stdout = <<>>
    /\ fe_read = <<>>
    /\ fs_read = <<>>
    /\ fscore_read = <<>>
    /\ fin_read = <<>>
    /\ origin = <<>>
    /\ verdict = ""
    /\ prev_seen = [none |-> TRUE, keys |-> {}]
    /\ b_line = <<>>
    /\ b_result = FALSE
    /\ n_s \in NormStrings
    /\ n_lowercase \in BOOLEAN
    /\ n_out = <<>>

\* normalize(s, lowercase), then normalize of what it returned
normalize_call ==
    /\ pc = "normalize"
    /\ n_out' = Append(n_out, normalize(IF n_out = <<>> THEN n_s ELSE n_out[Len(n_out)],
                                        n_lowercase))
    /\ pc' = IF Len(n_out') = 2 THEN "normalized" ELSE "normalize"
    /\ UNCHANGED << err, args, lens, dirs, pairs, processed, kept, dropped, seen,
                    oe, os, fout, stdout, fe_read, fs_read, fscore_read, fin_read,
                    origin, verdict, prev_seen, b_line, b_result, n_s, n_lowercase >>

NextNorm == normalize_call

SpecNorm == InitNorm /\ [][NextNorm]_vars

(* ------------------------------------------------------------------ *)
(* bad_line applied to a line                                          *)
(* ------------------------------------------------------------------ *)

\* letters, a digit, a blank, the replacement character and the characters
\* the markers begin and end with
BadLineAlphabet == {"a", "A", "1", " ", "<", ">", "&", "FFFD"}

\* the URL and HTML markers in several spellings, and strings that fall short
\* of each of them
BadLineMarkers ==
    { <<"h","t","t","p",":","/","/">>,
      <<"h","t","t","p","s",":","/","/">>,
      <<"w","w","w",".">>,
      <<"H","T","T","P",":","/","/">>,
      <<"h","T","T","p","S",":","/","/">>,
      <<"W","w","w",".">>,
      <<"h","t","t","p",":","/">>,
      <<"h","t","t","p","s",":","/">>,
      <<"w","w",".">>,
      <<"<","b",">">>,
      <<"<","/","b",">">>,
      <<"<"," ",">">>,
      <<"<",">">>,
      <<"<","b">>,
      <<"&","n","b","s","p",";">>,
      <<"&","N","B","S","P",";">>,
      <<"&","n","b","s","p">>,
      <<"&","#","1","2",";">>,
      <<"&","#","FW1",";">>,
      <<"&","#",";">>,
      <<"&","#","1">>,
      <<"&","#","x","1",";">> }


\* what stands before and after a marker
BadLineAffixes == { <<>>, <<"a">>, <<"1">>, <<"a"," ">> }

\* whole lines
BadLineExamples ==
    { <<>>,
      <<"1","2","3","4">>,
      <<"v","i","s","i","t"," ","h","t","t","p","s",":","/","/","x",".","c","o","m"," ","n","o","w">>,
      <<"h","e","l","l","o"," ","w","o","r","l","d">> }


BadLineStrings ==
    UNION {[1..n -> BadLineAlphabet] : n \in 0..MaxStrLen}
    \cup {p \o m \o q : p \in BadLineAffixes, m \in BadLineMarkers, q \in BadLineAffixes}
    \cup BadLineExamples

InitBadLine ==
    /\ pc = "bad_line"
    /\ err = ""
    /\ args = NoArgs
    /\ lens = NoLens
    /\ dirs = {}
    /\ pairs = 0
    /\ processed = 0
    /\ kept = 0
    /\ dropped = 0
    /\ seen = [none |-> TRUE, keys |-> {}]
    /\ oe = <<>>
    /\ os = <<>>
    /\ fout = <<>>
    /\ stdout = <<>>
    /\ fe_read = <<>>
    /\ fs_read = <<>>
    /\ fscore_read = <<>>
    /\ fin_read = <<>>
    /\ origin = <<>>
    /\ verdict = ""
    /\ prev_seen = [none |-> TRUE, keys |-> {}]
    /\ b_line \in BadLineStrings
    /\ b_result = FALSE
    /\ n_s = <<>>
    /\ n_lowercase = TRUE
    /\ n_out = <<>>

\* bad_line(line)
bad_line_call ==
    /\ pc = "bad_line"
    /\ b_result' = bad_line(b_line)
    /\ pc' = "bad_line_returned"
    /\ UNCHANGED << err, args, lens, dirs, pairs, processed, kept, dropped, seen,
                    oe, os, fout, stdout, fe_read, fs_read, fscore_read, fin_read,
                    origin, verdict, prev_seen, b_line >>
    /\ UNCHANGED normVars

NextBadLine == bad_line_call

SpecBadLine == InitBadLine /\ [][NextBadLine]_vars

(* ------------------------------------------------------------------ *)
(* clean_parallel on files of marked-up and mixed-case lines           *)
(* ------------------------------------------------------------------ *)

\* a source file: a line with capitals, a line of blanks, a line with tags
ExampleSources ==
    << <<"H","e","l","l","o","!">>,
       <<" "," "," ">>,
       <<"<","b",">","s","p","a","m","<","/","b",">">> >>

\* a target file of three clean lines
ExampleTargets ==
    << <<"H","o","l","a","!">>, <<"x">>, <<"b","a","s","u","r","a">> >>

\* the lines the source files are made of
ExampleEnLines == {ExampleSources[i] : i \in DOMAIN ExampleSources}

\* the lines the target files are made of: those above and a line of digits
ExampleSwLines ==
    {ExampleTargets[i] : i \in DOMAIN ExampleTargets} \cup { <<"1","2","3">> }

\* score lines: one that passes min_score, one that does not decode
ExampleScoreLines == { <<"1",".","1">>, <<"1","BAD">> }

\* the default max_words and max_ratio
DefaultLimits == { [max_words |-> 80, max_ratio |-> [num |-> 3, den |-> 1]] }

example_clean_parallel ==
    clean_parallel_of(BOOLEAN, DefaultLimits, Len(ExampleSources))

example_helper_no_score == helper_no_score_of(ExampleEnLines, ExampleSwLines)

example_helper_with_score ==
    helper_with_score_of(ExampleEnLines, ExampleSwLines, ExampleScoreLines)

example_helper_with_score_decode_error ==
    helper_with_score_decode_error_of(ExampleScoreLines)

NextExample ==
    \/ example_clean_parallel
    \/ example_helper_no_score
    \/ helper_no_score_end
    \/ example_helper_with_score
    \/ example_helper_with_score_decode_error
    \/ helper_with_score_end

SpecExample == Init /\ [][NextExample]_vars

(* ------------------------------------------------------------------ *)
(* Two driver calls, one after the other                               *)
(* ------------------------------------------------------------------ *)

\* the lines of the files of both calls: two source lines with one
\* normalized form, a clean and an undecodable target line, two monolingual
\* lines with one normalized form and a line of digits
CallsEnLines == { <<"a">>, <<"A">> }
CallsSwLines == { <<"x"," ","y">>, <<"x","BAD">> }
CallsMonoLines == { <<"a"," ","b">>, <<"A"," ","b">>, <<"1","2">> }

calls_clean_parallel == clean_parallel_of({FALSE}, DefaultLimits, MaxLines)

calls_helper_no_score == helper_no_score_of(CallsEnLines, CallsSwLines)

calls_clean_mono_gz == clean_mono_gz_of(DefaultLimits, MaxLines)

calls_clean_mono_gz_line == clean_mono_gz_line_of(CallsMonoLines)

IsSummary(line) == line.kind = "summary"

\* the first call of __main__ has returned and the next statement, another
\* call, is reached; what the call left in its locals is garbage now
return_to_main ==
    /\ pc = "done"
    /\ Len(SelectSeq(stdout, IsSummary)) = 1
    /\ pc' = "idle"
    /\ prev_seen' = seen
    /\ UNCHANGED << err, args, lens, dirs, pairs, processed, kept, dropped, seen,
                    oe, os, fout, stdout, fe_read, fs_read, fscore_read, fin_read,
                    origin, verdict >>
    /\ UNCHANGED badLineVars
    /\ UNCHANGED normVars

NextCalls ==
    \/ calls_clean_parallel
    \/ calls_helper_no_score
    \/ helper_no_score_end
    \/ calls_clean_mono_gz
    \/ calls_clean_mono_gz_line
    \/ clean_mono_gz_end
    \/ return_to_main

SpecCalls == Init /\ [][NextCalls]_vars

(* ------------------------------------------------------------------ *)
(* The loops as functions of the files they read                       *)
(* ------------------------------------------------------------------ *)

\* the locals and the output files as helper_no_score / helper_with_score
\* find them: kept = dropped = 0, seen fresh, the files opened with "w"
ParallelStart(dedup) ==
    [pairs |-> 0, kept |-> 0, dropped |-> 0, seen |-> FreshSeen(dedup),
     oe |-> <<>>, os |-> <<>>]

\* the counters and files after one more record whose verdict is v
ParallelAfter(acc, v, en, sw) ==
    IF v = "keep"
    THEN [acc EXCEPT !.pairs = @ + 1, !.kept = @ + 1,
                     !.oe = Append(@, en), !.os = Append(@, sw)]
    ELSE [acc EXCEPT !.pairs = @ + 1, !.dropped = @ + 1]

\* helper_no_score after the first n records of the files fe and fs
RECURSIVE helper_no_score_run(_, _, _, _, _, _)
helper_no_score_run(fe, fs, n, max_words, max_ratio, dedup) ==
    IF n = 0 THEN ParallelStart(dedup)
    ELSE LET acc == helper_no_score_run(fe, fs, n - 1, max_words, max_ratio, dedup)
             en_raw == DecodeReplace(fe[n])
             sw_raw == DecodeReplace(fs[n])
             en == normalize(en_raw, TRUE)
             sw == normalize(sw_raw, TRUE)
             v == helper_no_score_verdict(en_raw, sw_raw, max_words, max_ratio, acc.seen)
             after == ParallelAfter(acc, v, en, sw)
         IN  IF v = "keep" /\ ~ acc.seen.none
             THEN [after EXCEPT !.seen.keys = @ \cup {<<en, sw>>}]
             ELSE after

\* helper_with_score after the first n records of the files fe, fs and fscore,
\* none of which fails to decode
RECURSIVE helper_with_score_run(_, _, _, _, _, _, _, _)
helper_with_score_run(fe, fs, fscore, n, min_score, max_words, max_ratio, dedup) ==
    IF n = 0 THEN ParallelStart(dedup)
    ELSE LET acc == helper_with_score_run(fe, fs, fscore, n - 1, min_score,
                                          max_words, max_ratio, dedup)
             en_raw == DecodeReplace(fe[n])
             sw_raw == DecodeReplace(fs[n])
             v == helper_with_score_verdict(en_raw, sw_raw, DecodeStrict(fscore[n]),
                                            min_score, max_words, max_ratio)
         IN  ParallelAfter(acc, v, normalize(en_raw, TRUE), normalize(sw_raw, TRUE))

\* clean_mono_gz after the first n lines of the file fin
RECURSIVE clean_mono_gz_run(_, _, _, _)
clean_mono_gz_run(fin, n, max_words, dedup) ==
    IF n = 0
    THEN [processed |-> 0, kept |-> 0, dropped |-> 0, seen |-> FreshSeen(dedup),
          fout |-> <<>>]
    ELSE LET acc == clean_mono_gz_run(fin, n - 1, max_words, dedup)
             line == DecodeReplace(fin[n])
             s == normalize(line, TRUE)
             v == clean_mono_gz_verdict(line, max_words, acc.seen)
         IN  IF v = "keep"
             THEN [acc EXCEPT !.processed = @ + 1, !.kept = @ + 1,
                              !.fout = Append(@, s),
                              !.seen = IF @.none THEN @
                                       ELSE [@ EXCEPT !.keys = @ \cup {s}]]
             ELSE [acc EXCEPT !.processed = @ + 1, !.dropped = @ + 1]

(* ------------------------------------------------------------------ *)
(* Properties                                                          *)
(* ------------------------------------------------------------------ *)

IsParallel == args.driver = "clean_parallel"
IsMono == args.driver = "clean_mono_gz"

\* the normalized source and target line of the record of input index i
NormEn(i) == normalize(DecodeReplace(fe_read[i]), TRUE)
NormSw(i) == normalize(DecodeReplace(fs_read[i]), TRUE)

\* the length of the shortest input stream of the running clean_parallel call
MinLen ==
    IF args.score_path THEN Min(lens.en, Min(lens.sw, lens.score))
    ELSE Min(lens.en, lens.sw)

LensDiffer ==
    \/ lens.en # lens.sw
    \/ args.score_path /\ lens.score # lens.en

\* C1: in one clean_parallel run with dedup enabled, with or without a score
\* file, no normalized (source, target) pair is written twice; with dedup
\* disabled no record is dropped as already seen.
C1_DedupKeepsEachPairOnce ==
    IsParallel =>
        /\ args.dedup =>
              \A i, j \in 1..Len(oe) :
                  i < j /\ j <= Len(os) => <<oe[i], os[i]>> # <<oe[j], os[j]>>
        /\ ~ args.dedup => verdict # "seen"

\* C2: after any number of records of clean_parallel, out_en and out_sw hold
\* the same number of lines, and line N of each is the normalized source,
\* respectively target, line of one and the same input index.
C2_OutputAligned ==
    IsParallel =>
        /\ Len(oe) = Len(os)
        /\ Len(origin) = Len(oe)
        /\ \A N \in 1..Len(oe) :
              /\ origin[N] \in 1..pairs
              /\ oe[N] = NormEn(origin[N])
              /\ Len(os) >= N => os[N] = NormSw(origin[N])

\* C2 witness: the first record was dropped and the second kept, so line 1
\* of both outputs comes from input index 2.
C2_Witness ==
    /\ IsParallel
    /\ pairs = 2
    /\ dropped = 1
    /\ origin = <<2>>
    /\ oe = <<NormEn(2)>>
    /\ os = <<NormSw(2)>>

\* the score gate as the claim states it: the line does not parse as a
\* number, or parses to a value strictly below min_score
C3_Unparsed(score_bytes) == ~ ParseFloat(DecodeStrict(score_bytes)).ok

C3_StrictlyBelow(score_bytes, m) ==
    LET p == ParseFloat(DecodeStrict(score_bytes))
        v == IF p.neg THEN 0 - p.num ELSE p.num
    IN  /\ p.ok
        /\ ~ p.nan
        /\ IF p.inf THEN p.neg ELSE v * m.den < m.num * p.den

\* C3: in the score path a record is dropped at the score gate exactly when
\* its score line does not parse or parses strictly below min_score (a score
\* equal to min_score passes); the gate drop adds one to dropped, writes
\* nothing, and leaves the loop running.
C3_ScoreGate ==
    [][ (pc = "helper_with_score" /\ pairs' = pairs + 1) =>
          LET line == fscore_read'[pairs']
              drop == C3_Unparsed(line) \/ C3_StrictlyBelow(line, args.min_score)
          IN  /\ (verdict' \in {"score_parse", "score_low"}) <=> drop
              /\ drop => /\ dropped' = dropped + 1
                         /\ kept' = kept
                         /\ oe' = oe
                         /\ os' = os
                         /\ pc' = "helper_with_score"
                         /\ err' = "" ]_vars

\* C3 witness: an unparsable score dropped a record whose target line is
\* malformed, and the next record, with a score equal to min_score, was kept.
C3_Witness ==
    /\ pc = "helper_with_score"
    /\ fscore_read = << <<"a","b","c">>, <<"1",".","1">> >>
    /\ fs_read[1] = <<"x","BAD">>
    /\ dropped = 1
    /\ kept = 1

\* C4: when the input streams of clean_parallel have different line counts,
\* the run raises no error, and once it has finished the number of records
\* processed (kept + dropped) is the length of the shortest stream and no
\* line beyond that length has reached the output.
C4_TruncatesToShortest ==
    (IsParallel /\ LensDiffer /\ err # "FileNotFoundError") =>
        /\ pc # "error"
        /\ pc = "done" =>
              /\ pairs = MinLen
              /\ kept + dropped = MinLen
              /\ \A N \in 1..Len(origin) : origin[N] <= MinLen

\* C5: a malformed byte sequence in an input stream never ends the run: only
\* a file-level failure does, and a record whose text holds the malformed
\* bytes is dropped.
C5_MalformedBytesNeverAbort ==
    /\ pc = "error" => err = "FileNotFoundError"
    /\ (IsParallel /\ pairs >= 1 /\
        (DecodeStrictFails(fe_read[pairs]) \/ DecodeStrictFails(fs_read[pairs])))
          => verdict # "keep"
    /\ (IsMono /\ processed >= 1 /\ DecodeStrictFails(fin_read[processed]))
          => verdict # "keep"

\* C6: the parent directory of every output path exists before the output
\* file is opened, so no run fails on a missing output directory.
C6_OutputDirsExist ==
    /\ IsParallel => /\ CanOpenForWrite(dirs, args.out_en)
                     /\ CanOpenForWrite(dirs, args.out_sw)
    /\ IsMono => CanOpenForWrite(dirs, args.out_path)
    /\ err # "FileNotFoundError"

C7_Processed == IF IsMono THEN processed ELSE pairs

C7_Summaries == {i \in 1..Len(stdout) : stdout[i].kind = "summary"}

\* C7: a progress line is printed for every processed index that is a
\* multiple of the interval, kept or dropped, and a finished run has printed
\* exactly one summary, last, with the final kept and dropped counts.
C7_ProgressAndSummary ==
    /\ \A k \in 1..C7_Processed :
          k % ProgressEvery = 0 =>
              \E i \in 1..Len(stdout) :
                  stdout[i].kind = "progress" /\ stdout[i].processed = k
    /\ pc = "done" =>
          /\ C7_Summaries = {Len(stdout)}
          /\ stdout[Len(stdout)].kept = kept
          /\ stdout[Len(stdout)].dropped = dropped

\* C8: normalize is idempotent: normalize(normalize(s)) = normalize(s) for
\* every s over the alphabet and either value of lowercase.
C8_NormalizeIdempotent == Len(n_out) = 2 => n_out[2] = n_out[1]

\* C9: a pair that passed the earlier checks (the score gate in the score
\* path, both lines not malformed, both word counts at most max_words) is
\* dropped by the ratio check exactly when max(counts) / max(1, min(counts))
\* is strictly greater than max_ratio, whichever side is the longer.
C9_LengthRatio ==
    (IsParallel /\ pairs >= 1 /\ verdict \notin {"score_parse", "score_low"}) =>
        LET a == WordCount(NormEn(pairs))
            b == WordCount(NormSw(pairs))
            hi == IF a >= b THEN a ELSE b
            lo == IF a >= b THEN b ELSE a
            r == args.max_ratio
        IN  (~ bad_line(NormEn(pairs)) /\ ~ bad_line(NormSw(pairs))
             /\ a <= args.max_words /\ b <= args.max_words)
            => ((verdict = "ratio") <=>
                    hi * r.den > r.num * (IF lo < 1 THEN 1 ELSE lo))

\* C9 witness: a pair of 1 and 2 words (ratio equal to max_ratio, target
\* longer) was kept, then a pair of 5 and 2 words (ratio above it, source
\* longer) was dropped by the ratio check.
C9_Witness ==
    /\ IsParallel
    /\ pairs = 2
    /\ kept = 1
    /\ verdict = "ratio"
    /\ WordCount(NormEn(1)) = 1 /\ WordCount(NormSw(1)) = 2
    /\ WordCount(NormEn(2)) = 5 /\ WordCount(NormSw(2)) = 2
    /\ args.max_ratio = [num |-> 2, den |-> 1]

\* what clean_mono_gz is to have written after the lines read so far: a line
\* is written exactly when it passes the four conditions of the claim
RECURSIVE C10_Expected(_, _, _, _)
C10_Expected(lines, max_words, dedup, written) ==
    IF lines = <<>> THEN written
    ELSE LET s == normalize(DecodeReplace(Head(lines)), TRUE)
             ok == /\ ~ bad_line(s)
                   /\ ~ noisy_mono_line(s)
                   /\ WordCount(s) <= max_words
                   /\ dedup => \A i \in 1..Len(written) : written[i] # s
         IN  C10_Expected(Tail(lines), max_words, dedup,
                          IF ok THEN Append(written, s) ELSE written)

AllScoresPass ==
    \A i \in 1..Len(fscore_read) :
        LET score == ParseFloat(DecodeStrict(fscore_read[i]))
        IN  score.ok /\ ~ score.nan /\ ~ ScoreBelow(score, args.min_score)

\* C11: on the same source and target files, with the same max_words,
\* max_ratio and dedup, and a score file whose every line parses to a value of
\* at least min_score and which is as long as the shorter text file, the run
\* with the score file ends with the output files and the kept and dropped
\* counts that the run without a score file ends with.
C11_ScorePathEqualsNoScorePath ==
    ( /\ IsParallel /\ args.score_path /\ pc = "done"
      /\ lens.score >= Min(lens.en, lens.sw)
      /\ AllScoresPass )
    => LET other == helper_no_score_run(fe_read, fs_read, Len(fe_read),
                        args.max_words, args.max_ratio, args.dedup)
       IN  /\ oe = other.oe
           /\ os = other.os
           /\ kept = other.kept
           /\ dropped = other.dropped

\* the loops as functions agree with the loops taken record by record
RunsAgree ==
    /\ (IsParallel /\ ~ args.score_path /\ pc \in {"helper_no_score", "done"})
        => helper_no_score_run(fe_read, fs_read, pairs, args.max_words,
                               args.max_ratio, args.dedup)
           = [pairs |-> pairs, kept |-> kept, dropped |-> dropped, seen |-> seen,
              oe |-> oe, os |-> os]
    /\ (IsParallel /\ args.score_path /\ pc \in {"helper_with_score", "done"})
        => helper_with_score_run(fe_read, fs_read, fscore_read, pairs,
                                 args.min_score, args.max_words, args.max_ratio,
                                 args.dedup)
           = [pairs |-> pairs, kept |-> kept, dropped |-> dropped, seen |-> seen,
              oe |-> oe, os |-> os]
    /\ (IsMono /\ pc \in {"clean_mono_gz", "done"})
        => clean_mono_gz_run(fin_read, processed, args.max_words, args.dedup)
           = [processed |-> processed, kept |-> kept, dropped |-> dropped,
              seen |-> seen, fout |-> fout]

\* C12: in clean_parallel a record either of whose normalized lines is
\* malformed is dropped and nothing of it is written to either file; every
\* line written is the normalized form of the line of its record; and the run
\* without scores on sources "Hello!", "   ", "<b>spam</b>" and targets
\* "Hola!", "x", "basura" ends with exactly "hello!" in the one output file and
\* "hola!" in the other.
C12_MalformedDroppedKeptNormalized ==
    IsParallel =>
        /\ Len(oe) = Len(origin) /\ Len(os) = Len(origin)
        /\ \A i \in 1..pairs :
               (bad_line(NormEn(i)) \/ bad_line(NormSw(i)))
               => ~ \E k \in 1..Len(origin) : origin[k] = i
        /\ \A k \in 1..Len(origin) :
               /\ oe[k] = NormEn(origin[k])
               /\ os[k] = NormSw(origin[k])
        /\ ( /\ ~ args.score_path /\ pc = "done"
             /\ fe_read = ExampleSources /\ fs_read = ExampleTargets )
           => /\ oe = << <<"h","e","l","l","o","!">> >>
              /\ os = << <<"h","o","l","a","!">> >>

\* the run without scores on the example files has ended: one record kept,
\* two dropped
C12_Witness ==
    /\ IsParallel /\ ~ args.score_path /\ pc = "done"
    /\ fe_read = ExampleSources /\ fs_read = ExampleTargets
    /\ kept = 1 /\ dropped = 2
    /\ oe = << <<"h","e","l","l","o","!">> >>

\* the line holds, in any mix of cases, one of http://, https:// and www.
C13_UrlMarker(line) ==
    \E m \in { <<"h","t","t","p",":","/","/">>, <<"h","t","t","p","s",":","/","/">>,
                <<"w","w","w",".">> } :
        \E i \in 1..Len(line) :
            /\ i + Len(m) - 1 <= Len(line)
            /\ \A k \in 1..Len(m) :
                  \/ line[i + k - 1] = m[k]
                  \/ /\ line[i + k - 1] \in UpperLetters
                     /\ LowerOf[line[i + k - 1]] = m[k]

\* the line holds a tag (<, one character or more none of which is >, then >),
\* or &nbsp;, or a numeric character reference (&#, one decimal digit or
\* more, then ;)
C13_HtmlMarker(line) ==
    \/ \E i \in 1..Len(line), j \in 1..Len(line) :
          /\ i + 1 < j /\ line[i] = "<" /\ line[j] = ">"
          /\ \A k \in (i + 1)..(j - 1) : line[k] # ">"
    \/ \E i \in 1..Len(line) :
          /\ i + 5 <= Len(line)
          /\ SubSeq(line, i, i + 5) = <<"&","n","b","s","p",";">>
    \/ \E i \in 1..Len(line), j \in 1..Len(line) :
          /\ i + 2 < j /\ line[i] = "&" /\ line[i + 1] = "#" /\ line[j] = ";"
          /\ \A k \in (i + 2)..(j - 1) : line[k] \in Digits \cup {"FW1"}

\* C13: bad_line returns true exactly when the line is empty, or holds the
\* replacement character U+FFFD, or holds a URL marker (http://, https://,
\* www., in any case), or holds an HTML marker (a tag, &nbsp;, a numeric
\* character reference), or holds no alphabetic character; it returns false on
\* every other line. It is true on "", "1234" and "visit https://x.com now"
\* and false on "hello world".
C13_BadLineExactly ==
    pc = "bad_line_returned" =>
        /\ b_result <=> ( \/ b_line = <<>>
                          \/ \E i \in 1..Len(b_line) : b_line[i] = "FFFD"
                          \/ C13_UrlMarker(b_line)
                          \/ C13_HtmlMarker(b_line)
                          \/ \A i \in 1..Len(b_line) : ~ IsAlpha(b_line[i]) )
        /\ b_line \in {<<>>, <<"1","2","3","4">>,
                       <<"v","i","s","i","t"," ","h","t","t","p","s",":","/","/","x",".","c","o","m"," ","n","o","w">>}
           => b_result
        /\ b_line = <<"h","e","l","l","o"," ","w","o","r","l","d">>
           => ~ b_result

\* bad_line has returned true on the line with the URL in it
C13_Witness ==
    /\ pc = "bad_line_returned"
    /\ b_line = <<"v","i","s","i","t"," ","h","t","t","p","s",":","/","/","x",".","c","o","m"," ","n","o","w">>
    /\ b_result

\* the step processes one more record of the running call
RecordStep ==
    \/ IsParallel /\ pairs' = pairs + 1
    \/ IsMono /\ processed' = processed + 1

\* C14: in both drivers, after every record, kept + dropped is the number of
\* records processed and kept is the number of lines written to each output
\* file; every record adds one to exactly one of kept and dropped and leaves
\* the other alone; and the summary printed at the end carries the values the
\* two counters then have.
C14_CountersAccountForEveryRecord ==
    [][ /\ IsParallel' => /\ kept' + dropped' = pairs'
                          /\ kept' = Len(oe') /\ kept' = Len(os')
        /\ IsMono' => /\ kept' + dropped' = processed'
                      /\ kept' = Len(fout')
        /\ RecordStep => \/ kept' = kept + 1 /\ dropped' = dropped
                         \/ kept' = kept /\ dropped' = dropped + 1
        /\ (pc # "done" /\ pc' = "done")
           => /\ kept' = kept /\ dropped' = dropped
              /\ stdout' = Append(stdout, Summary(IF IsParallel THEN "parallel" ELSE "mono",
                                                  kept', dropped'))
      ]_vars

\* a run that kept one record and dropped another has printed its summary
C14_Witness ==
    /\ IsParallel /\ pc = "done"
    /\ pairs = 2 /\ kept = 1 /\ dropped = 1
    /\ Len(oe) = 1
    /\ stdout[Len(stdout)] = Summary("parallel", 1, 1)

\* the keys of the records written to the output of the running call
WrittenKeys ==
    IF IsParallel THEN {<<oe[k], os[k]>> : k \in 1..Min(Len(oe), Len(os))}
    ELSE {fout[k] : k \in 1..Len(fout)}

\* C15: in a run with dedup enabled the seen set is at every point exactly the
\* set of keys written to the output so far; it never shrinks; a key enters it
\* only in the step that keeps its record; a record that is dropped adds
\* nothing to it.
C15_SeenIsWhatWasWritten ==
    [][ (args.dedup' /\ pc' \notin {"idle", "error"})
        => /\ ~ seen.none'
           /\ seen.keys' = WrittenKeys'
           /\ RecordStep
              => /\ seen.keys \subseteq seen.keys'
                 /\ seen.keys' # seen.keys => kept' = kept + 1
                 /\ dropped' = dropped + 1 => seen.keys' = seen.keys
      ]_vars

\* the running call is the second one
SecondCall ==
    \/ Len(SelectSeq(stdout, IsSummary)) = 1 /\ pc \notin {"idle", "done"}
    \/ Len(SelectSeq(stdout, IsSummary)) = 2

\* C16: in each of two consecutive driver calls the counters start at zero
\* and the dedup set starts empty, and the output and the kept and dropped
\* counts of the call are those its own files and parameters determine,
\* whatever the call before it read, kept and remembered.
C16_CallsShareNothing ==
    /\ (IsParallel /\ pc \in {"helper_no_score", "done"})
        => LET own == helper_no_score_run(fe_read, fs_read, pairs, args.max_words,
                                          args.max_ratio, args.dedup)
           IN  /\ pairs = 0 => kept = 0 /\ dropped = 0 /\ seen.keys = {}
               /\ oe = own.oe /\ os = own.os
               /\ kept = own.kept /\ dropped = own.dropped
               /\ seen = own.seen
    /\ (IsMono /\ pc \in {"clean_mono_gz", "done"})
        => LET own == clean_mono_gz_run(fin_read, processed, args.max_words, args.dedup)
           IN  /\ processed = 0 => kept = 0 /\ dropped = 0 /\ seen.keys = {}
               /\ fout = own.fout
               /\ kept = own.kept /\ dropped = own.dropped
               /\ seen = own.seen

\* the first call, with dedup, kept the pair (a, x y); the second call, with
\* dedup, met the pair in its first record and kept it again
C16_Witness ==
    /\ SecondCall /\ IsParallel /\ args.dedup
    /\ ~ prev_seen.none /\ << <<"a">>, <<"x"," ","y">> >> \in prev_seen.keys
    /\ pairs >= 1 /\ origin # <<>> /\ origin[1] = 1
    /\ oe[1] = <<"a">> /\ os[1] = <<"x"," ","y">>

\* a is a prefix of b
IsPrefix(a, b) == Len(a) <= Len(b) /\ SubSeq(b, 1, Len(a)) = a

\* the lines of the output files are the normalized lines of the records at
\* the input indexes origin, and those indexes increase strictly
OrderedSubsequence ==
    /\ \A k \in 1..(Len(origin) - 1) : origin[k] < origin[k + 1]
    /\ IsParallel
       => /\ Len(oe) = Len(origin) /\ Len(os) = Len(origin)
          /\ \A k \in 1..Len(origin) :
                 /\ origin[k] \in 1..pairs
                 /\ oe[k] = NormEn(origin[k])
                 /\ os[k] = NormSw(origin[k])
    /\ IsMono
       => /\ Len(fout) = Len(origin)
          /\ \A k \in 1..Len(origin) :
                 /\ origin[k] \in 1..processed
                 /\ fout[k] = normalize(DecodeReplace(fin_read[origin[k]]), TRUE)

\* C17: both drivers only append to their output files: what a file holds
\* after k records is a prefix of what it holds after k + 1; a dropped record
\* leaves every output file as it was; and the lines written are the
\* normalized lines of the kept records in strictly increasing order of input
\* index.
C17_OutputOnlyGrowsInInputOrder ==
    /\ [][ /\ IsPrefix(oe, oe') /\ IsPrefix(os, os') /\ IsPrefix(fout, fout')
            /\ (RecordStep /\ dropped' = dropped + 1)
               => oe' = oe /\ os' = os /\ fout' = fout
          ]_vars
    /\ []OrderedSubsequence

\* the first record of a run was dropped and the second kept: the output
\* files hold the second record alone
C17_Witness ==
    /\ IsParallel /\ pairs = 2 /\ dropped = 1
    /\ origin = <<2>>
    /\ oe = <<NormEn(2)>> /\ os = <<NormSw(2)>>

====
